---- MODULE Spec2Model ----
(***************************************************************************)
(* Model of the harmonic-oscillator cells of                               *)
(* Module04-intro_to_integrators_lecture_notes.ipynb: the parameter cell   *)
(* (omega, A, phi, N, t, x, y) and the explicit Euler cell (h, xE, yE and  *)
(* the loop over enumerate(t[:-1])), one action per statement.             *)
(*                                                                         *)
(* Numbers are exact rationals <<numerator, denominator>> in lowest terms  *)
(* with a positive denominator, so +, -, * and / are the arithmetic of the *)
(* reals that the notebook's floats approximate; rounding is not modelled. *)
(* Two pairs with denominator 0 are not numbers: Uninit is an element of   *)
(* an np.empty_like array that was never assigned, Transc is a sample of   *)
(* cos/sin that is not rational.                                           *)
(***************************************************************************)
EXTENDS Integers, Sequences, FiniteSets

VARIABLES
    omega, A, phi, N, t, x, y,   \* names bound by the parameter cell
    h, xE, yE, k, tk,            \* names bound by the Euler cell
    pc, it,                      \* statement about to run; position of the for-loop iterator
    wlog, visited,               \* history: element writes <<array, index>>, values taken by k
    runs, prevXE, prevYE,        \* executions of the Euler cell started; output of the previous one
    drawn,                       \* the curves <<abscissae, ordinates>> handed to plot, in order
    fpc,                         \* the worked addition: step about to be taken
    opA, opB,                    \* its operands [S, E, M], M with the hidden bit in front
    al,                          \* the operand with the smaller exponent, being aligned
    GRS,                         \* guard, round and sticky bits
    off,                         \* history: the bits shifted off al.M, in order
    result,                      \* [S, E, M] of the sum
    decimal, eps                 \* the sum and its precision in decimal

\* the names of the worked floating-point addition
fpv == <<fpc, opA, opB, al, GRS, off, result, decimal, eps>>

vars == <<omega, A, phi, N, t, x, y, h, xE, yE, k, tk, pc, it, wlog, visited, runs, prevXE, prevYE, drawn, fpv>>

\* ------------------------------------------------------------------ bounds
MaxN == 4
MaxStop == 2
MaxRuns == 2

\* ------------------------------------------------------- exact arithmetic
Abs(n) == IF n < 0 THEN -n ELSE n

RECURSIVE GCD(_, _)
GCD(a, b) == IF b = 0 THEN a ELSE GCD(b, a % b)

LCM(a, b) == (a \div GCD(a, b)) * b

\* n/d in lowest terms, d > 0
Norm(n, d) ==
    LET g == GCD(Abs(n), d)
    IN  <<n \div g, d \div g>>

Rat(n) == <<n, 1>>
Zero == Rat(0)
One == Rat(1)

Uninit == <<0, 0>>
Transc == <<1, 0>>
IsNum(a) == a[2] > 0

RAdd(a, b) ==
    LET L == LCM(a[2], b[2])
    IN  Norm(a[1] * (L \div a[2]) + b[1] * (L \div b[2]), L)

RNeg(a) == <<-a[1], a[2]>>

RSub(a, b) == RAdd(a, RNeg(b))

RMul(a, b) ==
    LET g1 == GCD(Abs(a[1]), b[2])
        g2 == GCD(Abs(b[1]), a[2])
    IN  Norm((a[1] \div g1) * (b[1] \div g2), (a[2] \div g2) * (b[2] \div g1))

\* a / b for b # 0
RDiv(a, b) ==
    IF b[1] < 0 THEN RMul(a, <<-b[2], -b[1]>>) ELSE RMul(a, <<b[2], b[1]>>)

RLess(a, b) ==
    LET L == LCM(a[2], b[2])
    IN  a[1] * (L \div a[2]) < b[1] * (L \div b[2])

RAbs(a) == <<Abs(a[1]), a[2]>>

\* ------------------------------------------------------------------ inputs
\* values of the literals of the parameter cell
Omegas == {Rat(-1), Rat(0), Rat(1), Rat(2)}
Amplitudes == {Rat(0), Rat(1)}
\* an angle phi is given by <<cos phi, sin phi>>: phi = 0, pi/2, pi, 3 pi/2
Phases == {<<1, 0>>, <<0, 1>>, <<-1, 0>>, <<0, -1>>}
Stops == {Rat(s) : s \in 0..MaxStop}
\* what an element that np.empty_like left unassigned may hold when read
Garbage == {Rat(0), Rat(7)}

\* ------------------------------------------------------------ array helpers
Size(arr) == Cardinality(DOMAIN arr)

\* np.linspace(start, stop, num), endpoint included
linspace(start, stop, num) ==
    [i \in 0..(num - 1) |->
        IF num = 1 THEN start
        ELSE IF i = num - 1 THEN stop
        ELSE RAdd(RMul(Rat(i), RDiv(RSub(stop, start), Rat(num - 1))), start)]

\* A * np.cos(omega * t + phi): exact where omega * t[i] = 0
AnalyticX(om, a, p, tt) ==
    [i \in DOMAIN tt |->
        IF RMul(om, tt[i]) = Zero THEN RMul(a, Rat(p[1])) ELSE Transc]

\* -A * omega * np.sin(omega * t + phi): exact where omega * t[i] = 0
AnalyticY(om, a, p, tt) ==
    [i \in DOMAIN tt |->
        IF RMul(om, tt[i]) = Zero THEN RMul(RMul(RNeg(a), om), Rat(p[2])) ELSE Transc]

\* np.empty_like(arr): same shape, no element assigned
EmptyLike(arr) == [i \in DOMAIN arr |-> Uninit]

\* a read of the element after the one asked for
LoadNext(arr, i, g) == IF arr[i + 1] = Uninit THEN g ELSE arr[i + 1]

\* the value a read of arr[i] yields; g is what an unassigned element holds
Load(arr, i, g) == IF arr[i] = Uninit THEN g ELSE arr[i]

\* t[:-2]: one element too few
ButLastTwo(arr) == [i \in 0..(Size(arr) - 3) |-> arr[i]]

\* t[:-1]
ButLast(arr) == [i \in 0..(Size(arr) - 2) |-> arr[i]]

\* ------------------------------------------------------------ the Euler step
\* the position update without the step size
EulerXNoH(xk, yk, hh) == RAdd(xk, yk)

\* xE[k] + h * yE[k]
EulerX(xk, yk, hh) == RAdd(xk, RMul(hh, yk))

\* the y update with the sign of the restoring term flipped
EulerYPlus(xk, yk, hh, om) == RAdd(yk, RMul(RMul(hh, RMul(om, om)), xk))

\* the y update without the factor omega**2
EulerYNoOmega(xk, yk, hh, om) == RSub(yk, RMul(hh, xk))

\* the y update fed with the freshly computed x_{k+1}
EulerYNewX(xk, yk, hh, om) == RSub(yk, RMul(RMul(hh, RMul(om, om)), RAdd(xk, RMul(hh, yk))))

\* yE[k] - h * omega**2 * xE[k]
EulerY(xk, yk, hh, om) == RSub(yk, RMul(RMul(hh, RMul(om, om)), xk))

\* ------------------------------------------- half-precision worked example
MaxShift == 4

\* the exponent bias and the number of stored mantissa bits of half precision
Bias == 15
MantBits == 10

RECURSIVE Pow2(_)
Pow2(n) == IF n = 0 THEN 1 ELSE 2 * Pow2(n - 1)

\* the number a bit string denotes, most significant bit first
RECURSIVE FromBits(_)
FromBits(b) ==
    IF Len(b) = 0 THEN 0 ELSE 2 * FromBits(SubSeq(b, 1, Len(b) - 1)) + b[Len(b)]

\* the w-bit string of n, most significant bit first
ToBits(n, w) == [j \in 1..w |-> (n \div Pow2(w - j)) % 2]

\* 0.3 : 0 01101 (1)0011001101
Half03 == [S |-> 0, E |-> FromBits(<<0, 1, 1, 0, 1>>), M |-> FromBits(<<1, 0, 0, 1, 1, 0, 0, 1, 1, 0, 1>>)]

\* 0.1 : 0 01011 (1)1001100110
Half01 == [S |-> 0, E |-> FromBits(<<0, 1, 0, 1, 1>>), M |-> FromBits(<<1, 1, 0, 0, 1, 1, 0, 0, 1, 1, 0>>)]

\* operands of the addition: the two of the notebook and neighbours of them
OperandsA ==
    {[S |-> 0, E |-> e, M |-> m] : e \in {Half03.E - 1, Half03.E}, m \in {Half03.M, Pow2(MantBits), Pow2(MantBits + 1) - 1}}
OperandsB ==
    {[S |-> 0, E |-> e, M |-> m] :
        e \in (Half03.E - MaxShift)..Half03.E,
        m \in {Half01.M, Half01.M - 1, Half01.M + 1, Pow2(MantBits), Pow2(MantBits) + 5, Pow2(MantBits + 1) - 1}}

NoOperand == [S |-> 0, E |-> 0, M |-> 0]
NoDecimal == [int |-> 0, frac |-> << >>]

\* the operand whose mantissa is shifted: the one with the smaller exponent
Smaller(a, b) == IF a.E < b.E THEN a ELSE b
Larger(a, b) == IF a.E < b.E THEN b ELSE a

\* one bit shift of a mantissa without its hidden bit
HalfNoHidden(m) == (m % Pow2(MantBits)) \div 2

\* one bit shift to the right of a mantissa, hidden bit included
Half(m) == m \div 2

\* a sticky bit that takes whatever is shifted onto it
StickyNoStick(r, s) == r

\* the sticky bit after the round bit r is shifted onto it
StickyNext(r, s) == IF r = 1 \/ s = 1 THEN 1 ELSE 0

\* guard, round and sticky after `bit` is shifted off the mantissa
ShiftGRS(grs, bit) == <<bit, grs[1], StickyNext(grs[2], grs[3])>>

\* round toward 0: the GRS bits are dropped
RoundIncTruncate(grs, lsb) == 0

\* the halfway case always rounded down
RoundIncTieDown(grs, lsb) == IF FromBits(grs) > FromBits(<<1, 0, 0>>) THEN 1 ELSE 0

\* round to nearest even: what is added to the LSB
RoundInc(grs, lsb) ==
    IF FromBits(grs) > FromBits(<<1, 0, 0>>) THEN 1
    ELSE IF FromBits(grs) < FromBits(<<1, 0, 0>>) THEN 0
    ELSE IF lsb = 0 THEN 0 ELSE 1

\* the digits of n/d after the decimal point, for 0 <= n < d and d a power of 2
RECURSIVE FracDigits(_, _)
FracDigits(n, d) ==
    IF n = 0 THEN << >> ELSE <<(10 * n) \div d>> \o FracDigits((10 * n) % d, d)

\* n/d in decimal
Decimal(n, d) == [int |-> n \div d, frac |-> FracDigits(n % d, d)]

\* 2^(15 - E) * 1024, the denominator of 2^(E - 15) * (1 + M/1024), for E <= 15
DecodeDen(e) == Pow2(Bias - e) * Pow2(MantBits)

\* the worked addition has not been started
FpIdle ==
    /\ fpc = "idle"
    /\ opA = NoOperand
    /\ opB = NoOperand
    /\ al = NoOperand
    /\ GRS = <<0, 0, 0>>
    /\ off = << >>
    /\ result = NoOperand
    /\ decimal = NoDecimal
    /\ eps = NoDecimal

\* ------------------------------------------------------------------- Init
\* the state after the parameter cell has run
Init ==
    /\ \E om \in Omegas, a \in Amplitudes, p \in Phases, n \in 1..MaxN, stop \in Stops :
        /\ omega = om
        /\ A = a
        /\ phi = p
        /\ N = n
        /\ t = linspace(Zero, stop, n)
        /\ x = AnalyticX(om, a, p, linspace(Zero, stop, n))
        /\ y = AnalyticY(om, a, p, linspace(Zero, stop, n))
    /\ h = Uninit
    /\ xE = << >>
    /\ yE = << >>
    /\ k = -1
    /\ tk = Uninit
    /\ pc = "h"
    /\ it = 0
    /\ wlog = << >>
    /\ visited = << >>
    /\ runs = 1
    /\ prevXE = << >>
    /\ prevYE = << >>
    /\ drawn = << >>
    /\ FpIdle

params == <<omega, A, phi, N, t, x, y>>
hist == <<runs, prevXE, prevYE>>

\* ---------------------------------------------------------------- actions
\* h = t[-1]/t.size
ComputeH ==
    /\ pc = "h"
    /\ h' = RDiv(t[Size(t) - 1], Rat(Size(t)))
    /\ pc' = "allocx"
    /\ UNCHANGED <<params, xE, yE, k, tk, it, wlog, visited, hist, drawn, fpv>>

\* xE = np.empty_like(x)
AllocX ==
    /\ pc = "allocx"
    /\ xE' = EmptyLike(x)
    /\ pc' = "allocy"
    /\ UNCHANGED <<params, h, yE, k, tk, it, wlog, visited, hist, drawn, fpv>>

\* yE = np.empty_like(y)
AllocY ==
    /\ pc = "allocy"
    /\ yE' = EmptyLike(y)
    /\ pc' = "initx"
    /\ UNCHANGED <<params, h, xE, k, tk, it, wlog, visited, hist, drawn, fpv>>

\* xE[0] = y[0]: the wrong array on the right-hand side
InitXFromY ==
    /\ pc = "initx"
    /\ xE' = [xE EXCEPT ![0] = y[0]]
    /\ wlog' = Append(wlog, <<"xE", 0>>)
    /\ pc' = "inity"
    /\ UNCHANGED <<params, h, yE, k, tk, it, visited, hist, drawn, fpv>>

\* xE[0] = x[0]
InitX ==
    /\ pc = "initx"
    /\ xE' = [xE EXCEPT ![0] = x[0]]
    /\ wlog' = Append(wlog, <<"xE", 0>>)
    /\ pc' = "inity"
    /\ UNCHANGED <<params, h, yE, k, tk, it, visited, hist, drawn, fpv>>

\* yE[0] = y[0]
InitY ==
    /\ pc = "inity"
    /\ yE' = [yE EXCEPT ![0] = y[0]]
    /\ wlog' = Append(wlog, <<"yE", 0>>)
    /\ pc' = "for"
    /\ UNCHANGED <<params, h, xE, k, tk, it, visited, hist, drawn, fpv>>

\* the loop run over the whole of t
LoopSeqWhole == t

\* the sequence the for statement iterates over
LoopSeq == ButLast(t)

\* enumerate counting from 1: k runs one ahead of the samples
ForNextFromOne ==
    /\ pc = "for"
    /\ it < Size(LoopSeq) - 1
    /\ k' = it + 1
    /\ tk' = LoopSeq[it]
    /\ it' = it + 1
    /\ visited' = Append(visited, it + 1)
    /\ pc' = "stepx"
    /\ UNCHANGED <<params, h, xE, yE, wlog, hist, drawn, fpv>>

\* for k,tk in enumerate(t[:-1]): the iterator yields its next pair
ForNext ==
    /\ pc = "for"
    /\ it < Size(LoopSeq)
    /\ k' = it
    /\ tk' = LoopSeq[it]
    /\ it' = it + 1
    /\ visited' = Append(visited, it)
    /\ pc' = "stepx"
    /\ UNCHANGED <<params, h, xE, yE, wlog, hist, drawn, fpv>>

\* for k,tk in enumerate(t[:-1]): the iterator is exhausted
ForExit ==
    /\ pc = "for"
    /\ ~(it < Size(LoopSeq))
    /\ pc' = "done"
    /\ UNCHANGED <<params, h, xE, yE, k, tk, it, wlog, visited, hist, drawn, fpv>>

\* xE[k] = xE[k] + h * yE[k]: the sample is updated in place
StepXInPlace ==
    /\ pc = "stepx"
    /\ wlog' = Append(wlog, <<"xE", k>>)
    /\ \E gx \in Garbage, gy \in Garbage :
        xE' = [xE EXCEPT ![k] = EulerX(Load(xE, k, gx), Load(yE, k, gy), h)]
    /\ pc' = "stepy"
    /\ UNCHANGED <<params, h, yE, k, tk, it, visited, hist, drawn, fpv>>

\* xE[k+1] = xE[k] + h * yE[k]
StepX ==
    /\ pc = "stepx"
    /\ wlog' = Append(wlog, <<"xE", k + 1>>)
    /\ \E gx \in Garbage, gy \in Garbage :
        xE' = IF k + 1 \in DOMAIN xE
              THEN [xE EXCEPT ![k + 1] = EulerX(Load(xE, k, gx), Load(yE, k, gy), h)]
              ELSE xE
    /\ pc' = IF k + 1 \in DOMAIN xE THEN "stepy" ELSE "IndexError"
    /\ UNCHANGED <<params, h, yE, k, tk, it, visited, hist, drawn, fpv>>

\* yE[k+1] = yE[k] - h * omega**2 * xE[k]
StepY ==
    /\ pc = "stepy"
    /\ wlog' = Append(wlog, <<"yE", k + 1>>)
    /\ \E gx \in Garbage, gy \in Garbage :
        yE' = IF k + 1 \in DOMAIN yE
              THEN [yE EXCEPT ![k + 1] = EulerY(Load(xE, k, gx), Load(yE, k, gy), h, omega)]
              ELSE yE
    /\ pc' = IF k + 1 \in DOMAIN yE THEN "for" ELSE "IndexError"
    /\ UNCHANGED <<params, h, xE, k, tk, it, visited, hist, drawn, fpv>>

\* the Euler cell is executed again in the same session: every name keeps its
\* binding until the cell's statements rebind it
Rerun ==
    /\ pc = "done"
    /\ runs < MaxRuns
    /\ runs' = runs + 1
    /\ prevXE' = xE
    /\ prevYE' = yE
    /\ pc' = "h"
    /\ it' = 0
    /\ wlog' = << >>
    /\ visited' = << >>
    /\ UNCHANGED <<params, h, xE, yE, k, tk, drawn, fpv>>

\* the comparison cell: omega, A, phi, t, x, y are assigned again from the same
\* literals, then x, xE, y, yE are plotted against t
ComparisonCell ==
    /\ pc = "done"
    /\ omega' = omega
    /\ A' = A
    /\ phi' = phi
    /\ t' = linspace(Zero, t[Size(t) - 1], N)
    /\ x' = AnalyticX(omega, A, phi, linspace(Zero, t[Size(t) - 1], N))
    /\ y' = AnalyticY(omega, A, phi, linspace(Zero, t[Size(t) - 1], N))
    /\ drawn' = drawn \o <<<<t', x'>>, <<t', xE>>, <<t', y'>>, <<t', yE>>>>
    /\ pc' = "compared"
    /\ UNCHANGED <<N, h, xE, yE, k, tk, it, wlog, visited, hist, fpv>>

\* the phase-plane cell: y against x and yE against xE
PhaseCell ==
    /\ pc = "compared"
    /\ drawn' = drawn \o <<<<x, y>>, <<xE, yE>>>>
    /\ pc' = "plotted"
    /\ UNCHANGED <<params, h, xE, yE, k, tk, it, wlog, visited, hist, fpv>>

Next ==
    \/ ComputeH
    \/ AllocX
    \/ AllocY
    \/ InitX
    \/ InitY
    \/ ForNext
    \/ ForExit
    \/ StepX
    \/ StepY
    \/ Rerun
    \/ ComparisonCell
    \/ PhaseCell

Spec == Init /\ [][Next]_vars

\* ------------------------------------------- the worked addition, step by step
\* no cell of the notebook has run
NotebookIdle ==
    /\ omega = Uninit
    /\ A = Uninit
    /\ phi = <<0, 0>>
    /\ N = 0
    /\ t = << >>
    /\ x = << >>
    /\ y = << >>
    /\ h = Uninit
    /\ xE = << >>
    /\ yE = << >>
    /\ k = -1
    /\ tk = Uninit
    /\ pc = "unrun"
    /\ it = 0
    /\ wlog = << >>
    /\ visited = << >>
    /\ runs = 0
    /\ prevXE = << >>
    /\ prevYE = << >>
    /\ drawn = << >>

euler == <<omega, A, phi, N, t, x, y, h, xE, yE, k, tk, pc, it, wlog, visited, runs, prevXE, prevYE, drawn>>

\* the two operands are written down; bit shift 0 of the table
FpInit ==
    /\ NotebookIdle
    /\ \E a \in OperandsA, b \in OperandsB :
        /\ opA = a
        /\ opB = b
        /\ al = Smaller(a, b)
    /\ fpc = "align"
    /\ GRS = <<0, 0, 0>>
    /\ off = << >>
    /\ result = NoOperand
    /\ decimal = NoDecimal
    /\ eps = NoDecimal

\* one bit shift: the mantissa moves right, the exponent goes up by 1
FpShift ==
    /\ fpc = "align"
    /\ al.E < Larger(opA, opB).E
    /\ al' = [al EXCEPT !.E = al.E + 1, !.M = Half(al.M)]
    /\ GRS' = ShiftGRS(GRS, al.M % 2)
    /\ off' = Append(off, al.M % 2)
    /\ UNCHANGED <<euler, fpc, opA, opB, result, decimal, eps>>

\* the exponents are aligned: GRS and the LSB decide the rounding
FpRound ==
    /\ fpc = "align"
    /\ al.E = Larger(opA, opB).E
    /\ al' = [al EXCEPT !.M = al.M + RoundInc(GRS, al.M % 2)]
    /\ fpc' = "add"
    /\ UNCHANGED <<euler, opA, opB, GRS, off, result, decimal, eps>>

\* the mantissas are added
FpAdd ==
    /\ fpc = "add"
    /\ result' = [S |-> Larger(opA, opB).S, E |-> Larger(opA, opB).E, M |-> Larger(opA, opB).M + al.M]
    /\ fpc' = "decode"
    /\ UNCHANGED <<euler, opA, opB, al, GRS, off, decimal, eps>>

\* N_dec = (-1)^S * 2^(E-15) * (1 + M/1024) and eps = 2^(E-15) * (1/1024)
FpDecode ==
    /\ fpc = "decode"
    /\ decimal' = Decimal(result.M, DecodeDen(result.E))
    /\ eps' = Decimal(1, DecodeDen(result.E))
    /\ fpc' = "end"
    /\ UNCHANGED <<euler, opA, opB, al, GRS, off, result>>

FpNext ==
    \/ FpShift
    \/ FpRound
    \/ FpAdd
    \/ FpDecode

FpSpec == FpInit /\ [][FpNext]_vars

\* ------------------------------------------------------- derived quantities
\* loop bodies of the current execution that have run to their end
StepsDone == IF pc \in {"stepx", "stepy", "IndexError"} THEN it - 1 ELSE it

\* the current execution has assigned xE[0] and yE[0]
Started == pc \in {"for", "stepx", "stepy", "done"}

\* x_i^2 + y_i^2, the square of the Euclidean norm of sample i
NormSq(i) == RAdd(RMul(xE[i], xE[i]), RMul(yE[i], yE[i]))

omega2 == RMul(omega, omega)

\* ------------------------------------------------------------------- C1
\* C1: every completed loop body k left (xE[k+1], yE[k+1]) equal to the matrix
\* [[1, h], [-h*omega^2, 1]] applied to (xE[k], yE[k]); the y row uses the old
\* x_k, also once xE[k+1] has been written.
C1_EulerStepIsMatrix ==
    /\ \A i \in 0..(StepsDone - 1) :
        /\ xE[i + 1] = RAdd(RMul(One, xE[i]), RMul(h, yE[i]))
        /\ yE[i + 1] = RAdd(RMul(RNeg(RMul(h, omega2)), xE[i]), RMul(One, yE[i]))
    /\ pc = "stepy" => xE[k + 1] = RAdd(xE[k], RMul(h, yE[k]))

C1_Witness ==
    /\ pc = "done"
    /\ N >= 3
    /\ h # Zero
    /\ xE[1] # xE[0]
    /\ xE[2] # xE[1]
    /\ yE[2] # yE[1]

\* ------------------------------------------------------------------- C2
\* C2 as stated: whenever omega # 0 and h > 0, every completed Euler step
\* strictly increases the Euclidean norm of the sample (compared through its
\* square, the square root being strictly increasing).
C2_NormGrowsAlways ==
    (Started /\ omega # Zero /\ RLess(Zero, h)) =>
        \A i \in 0..(StepsDone - 1) : RLess(NormSq(i), NormSq(i + 1))

\* the least eigenvalue of M^T M, M = [[1, h], [-h*omega^2, 1]], exceeds 1
\* exactly when h * omega^2 > |omega^2 - 1|
StretchesEveryDirection == RLess(RAbs(RSub(omega2, One)), RMul(h, omega2))

\* C2 (amended): whenever omega # 0, h > 0, h * omega^2 > |omega^2 - 1| (so in
\* particular for omega = 1 or -1) and the initial state is not (0, 0), every
\* completed Euler step strictly increases the Euclidean norm of the sample.
C2_NormGrows ==
    (/\ Started
     /\ omega # Zero
     /\ RLess(Zero, h)
     /\ StretchesEveryDirection
     /\ <<xE[0], yE[0]>> # <<Zero, Zero>>) =>
        \A i \in 0..(StepsDone - 1) : RLess(NormSq(i), NormSq(i + 1))

C2_Witness ==
    /\ pc = "done"
    /\ N >= 2
    /\ omega = Rat(2)
    /\ RLess(Zero, h)
    /\ StretchesEveryDirection
    /\ <<xE[0], yE[0]>> # <<Zero, Zero>>
    /\ RLess(NormSq(0), NormSq(1))

\* a reachable step on which the norm shrinks although omega # 0 and h > 0
C2_ShrinkingStep ==
    /\ pc = "done"
    /\ omega # Zero
    /\ RLess(Zero, h)
    /\ <<xE[0], yE[0]>> # <<Zero, Zero>>
    /\ \E i \in 0..(StepsDone - 1) : RLess(NormSq(i + 1), NormSq(i))

\* ------------------------------------------------------------------- C3
\* C3: when the Euler cell has finished, xE and yE have exactly N elements,
\* indexed like t, and their first elements are x[0] and y[0], the supplied
\* initial condition; from its assignment on, no Euler step changes them.
C3_LengthAndInitial ==
    /\ pc = "done" =>
        /\ Size(xE) = N
        /\ Size(yE) = N
        /\ DOMAIN xE = DOMAIN t
        /\ DOMAIN yE = DOMAIN t
    /\ Started =>
        /\ xE[0] = x[0]
        /\ yE[0] = y[0]
        /\ xE[0] = RMul(A, Rat(phi[1]))
        /\ yE[0] = RNeg(RMul(RMul(A, omega), Rat(phi[2])))

C3_Witness ==
    /\ pc = "done"
    /\ N >= 3
    /\ h # Zero
    /\ xE[0] = Zero
    /\ yE[0] = Rat(2)
    /\ xE[N - 1] # xE[0]
    /\ yE[N - 1] # yE[0]

\* ------------------------------------------------------------------- C4
\* the assignments of a complete execution, in order: xE[0], yE[0], xE[1], yE[1], ...
ExpectedLog(n) ==
    [j \in 1..(2 * n) |-> <<IF j % 2 = 1 THEN "xE" ELSE "yE", (j - 1) \div 2>>]

C4_Safety ==
    /\ pc # "IndexError"
    /\ \A j \in 1..Len(wlog) : wlog[j][2] \in 0..(N - 1)
    /\ \A j \in 1..Len(visited) : visited[j] = j - 1
    /\ Len(visited) <= N - 1
    /\ Started => wlog = [j \in 1..(2 * (StepsDone + 1) + (IF pc = "stepy" THEN 1 ELSE 0)) |-> ExpectedLog(N)[j]]
    /\ pc = "done" =>
        /\ StepsDone = N - 1
        /\ visited = [j \in 1..(N - 1) |-> j - 1]
        /\ wlog = ExpectedLog(N)

\* statements the current execution can still run, at most
Variant ==
    CASE pc = "h" -> 3 * N + 5
      [] pc = "allocx" -> 3 * N + 4
      [] pc = "allocy" -> 3 * N + 3
      [] pc = "initx" -> 3 * N + 2
      [] pc = "inity" -> 3 * N + 1
      [] pc = "for" -> 3 * (N - 1 - it) + 1
      [] pc = "stepx" -> 3 * (N - 1 - it) + 3
      [] pc = "stepy" -> 3 * (N - 1 - it) + 2
      [] OTHER -> 0

\* the statements of the Euler cell
EulerCellPc == {"h", "allocx", "allocy", "initx", "inity", "for", "stepx", "stepy"}

\* C4: for every N >= 1 each execution of the Euler cell terminates (every
\* statement it runs lowers a natural-number variant), after exactly N-1 loop
\* bodies with k = 0, 1, ..., N-2 in this order, having assigned indices
\* 1..N-1 of xE and of yE once each (index 0 by the initialisation) and no
\* index outside 0..N-1.
C4_TerminatesAfterNminus1 ==
    /\ [](C4_Safety /\ Variant >= 0)
    /\ [][(pc \in EulerCellPc) => (Variant' < Variant)]_vars

C4_Witness ==
    /\ pc = "done"
    /\ N = MaxN
    /\ Len(visited) = MaxN - 1
    /\ Len(wlog) = 2 * MaxN

\* ------------------------------------------------------------------- C5
\* C5: once h is computed, every time value is t[k] = t[0] + k*h, for k in 0..N-1.
C5_TimeGridUsesH ==
    pc # "h" => \A i \in DOMAIN t : t[i] = RAdd(t[0], RMul(Rat(i), h))

\* ------------------------------------------------------------------- C6
\* C6: once the first loop body is complete, y_0 = 0 implies x_1 = x_0 and
\* y_1 = -h*omega^2*x_0; with omega = 1 and initial state (1, 0) this is
\* (x_1, y_1) = (1, -h), where h = t[-1]/N is the step the cell computed
\* (2*pi/100 for the notebook's stop = 2*pi and N = 100).
C6_FirstStep ==
    (StepsDone >= 1 /\ yE[0] = Zero) =>
        /\ h = RDiv(t[N - 1], Rat(N))
        /\ xE[1] = xE[0]
        /\ yE[1] = RNeg(RMul(RMul(h, omega2), xE[0]))
        /\ (omega = One /\ xE[0] = One) => <<xE[1], yE[1]>> = <<One, RNeg(h)>>

C6_Witness ==
    /\ StepsDone >= 1
    /\ omega = One
    /\ <<xE[0], yE[0]>> = <<One, Zero>>
    /\ h # Zero
    /\ <<xE[1], yE[1]>> = <<One, RNeg(h)>>

\* ------------------------------------------------------------------- C7
\* C7: if h = 0 then every sample assigned so far equals the initial state,
\* and so does every element 0..N-1 when the cell has finished.
C7_ZeroStepConstant ==
    (Started /\ h = Zero) =>
        /\ \A i \in 0..StepsDone : <<xE[i], yE[i]>> = <<xE[0], yE[0]>>
        /\ pc = "done" => \A i \in 0..(N - 1) : <<xE[i], yE[i]>> = <<x[0], y[0]>>

C7_Witness ==
    /\ pc = "done"
    /\ h = Zero
    /\ N = MaxN
    /\ omega # Zero
    /\ xE[0] # Zero
    /\ xE[N - 1] = xE[0]

\* ------------------------------------------------------------------- C8
\* C8: if N = 1 the loop body never runs, k is never bound, and the finished
\* trajectory has exactly one element, the initial state (x[0], y[0]).
C8_SingleSample ==
    N = 1 =>
        /\ pc \notin {"stepx", "stepy", "IndexError"}
        /\ visited = << >>
        /\ k = -1
        /\ pc = "done" =>
            /\ DOMAIN xE = {0}
            /\ DOMAIN yE = {0}
            /\ <<xE[0], yE[0]>> = <<x[0], y[0]>>
            /\ wlog = <<<<"xE", 0>>, <<"yE", 0>>>>

C8_Witness ==
    /\ N = 1
    /\ pc = "done"
    /\ omega = Rat(2)
    /\ <<xE[0], yE[0]>> = <<Zero, Rat(2)>>

C10_Deterministic ==
    (runs >= 2 /\ Started) =>
        /\ \A i \in 0..StepsDone : <<xE[i], yE[i]>> = <<prevXE[i], prevYE[i]>>
        /\ pc = "stepy" => xE[k + 1] = prevXE[k + 1]
        /\ pc = "done" => (xE = prevXE /\ yE = prevYE)

C10_Witness ==
    /\ runs = 2
    /\ pc = "done"
    /\ N = MaxN
    /\ h # Zero
    /\ omega # Zero
    /\ xE[0] # Zero
    /\ xE = prevXE
    /\ yE = prevYE

\* ------------------------------------------------------------------ C11
\* what one statement may change
C11_Step ==
    /\ (pc \in EulerCellPc) => (params' = params)
    /\ (pc \in EulerCellPc \ {"h"}) => (h' = h)
    /\ (pc # "allocx") =>
        \A i \in DOMAIN xE : (xE[i] # Uninit) => (i \in DOMAIN xE' /\ xE'[i] = xE[i])
    /\ (pc # "allocy") =>
        \A i \in DOMAIN yE : (yE[i] # Uninit) => (i \in DOMAIN yE' /\ yE'[i] = yE[i])
    /\ (pc = "stepx") =>
        /\ \A i \in DOMAIN xE \ {k + 1} : xE'[i] = xE[i]
        /\ yE' = yE
    /\ (pc = "stepy") =>
        /\ \A i \in DOMAIN yE \ {k + 1} : yE'[i] = yE[i]
        /\ xE' = xE
    /\ (pc' \in {"compared", "plotted"}) =>
        /\ xE' = xE
        /\ yE' = yE
        /\ \E j \in (Len(drawn) + 1)..Len(drawn'), c \in 1..2 : drawn'[j][c] = xE
        /\ \E j \in (Len(drawn) + 1)..Len(drawn'), c \in 1..2 : drawn'[j][c] = yE

\* C11: within an execution every element of xE and yE is assigned once and
\* keeps its value from then on (loop body k writes index k+1 only); no
\* statement of the Euler cell changes omega, N, t, x, y, and none after the
\* first changes h; the cells after the loop read xE and yE and leave them
\* as they are.
C11_NothingMutated ==
    /\ [](\A i, j \in 1..Len(wlog) : (i # j) => (wlog[i] # wlog[j]))
    /\ [][C11_Step]_vars

C11_Witness ==
    /\ pc = "plotted"
    /\ N = MaxN
    /\ h # Zero
    /\ xE[N - 1] # xE[0]
    /\ yE[N - 1] # yE[0]
    /\ Len(drawn) = 6
    /\ drawn[2] = <<t, xE>>
    /\ drawn[6] = <<xE, yE>>

\* ------------------------------------------------------------------ C16
\* omega^2 x_i^2 + y_i^2, the omega-weighted energy of sample i
Energy(i) == RAdd(RMul(omega2, RMul(xE[i], xE[i])), RMul(yE[i], yE[i]))

\* |1 +/- i h omega|^2 = 1 + h^2 omega^2
Growth == RAdd(One, RMul(RMul(h, h), omega2))

RECURSIVE RPow(_, _)
RPow(a, n) == IF n = 0 THEN One ELSE RMul(a, RPow(a, n - 1))

\* C16: every completed Euler step multiplies omega^2 x^2 + y^2 by exactly
\* 1 + h^2 omega^2, so sample i carries (1 + h^2 omega^2)^i times the initial
\* value; the quantity never decreases, and a step leaves it unchanged only if
\* h*omega = 0 or the sample is (0, 0).
C16_EnergyGrowth ==
    Started =>
        /\ \A i \in 0..StepsDone : Energy(i) = RMul(RPow(Growth, i), Energy(0))
        /\ \A i \in 0..(StepsDone - 1) :
            /\ Energy(i + 1) = RMul(Growth, Energy(i))
            /\ ~RLess(Energy(i + 1), Energy(i))
            /\ (Energy(i + 1) = Energy(i)) =>
                (RMul(h, omega) = Zero \/ <<xE[i], yE[i]>> = <<Zero, Zero>>)

C16_Witness ==
    /\ pc = "done"
    /\ N = MaxN
    /\ omega = Rat(2)
    /\ h # Zero
    /\ Energy(0) # Zero
    /\ RLess(Energy(N - 2), Energy(N - 1))
    /\ RLess(NormSq(2), NormSq(1))

\* ------------------------------------------------------------------ C17
\* C17: np.empty_like leaves every element unassigned, yet whenever a loop
\* body is about to read xE[k] and yE[k] both have been assigned (index 0 by
\* the initialisation, index k >= 1 by loop body k-1, and nothing beyond
\* index k+1 yet), and when the loop ends every index 0..N-1 of both arrays
\* has been assigned.
C17_NoReadBeforeWrite ==
    /\ (pc \in {"initx", "inity"}) =>
        /\ \A i \in DOMAIN xE \ {0} : xE[i] = Uninit
        /\ \A i \in DOMAIN yE : yE[i] = Uninit
    /\ (pc \in {"stepx", "stepy"}) =>
        /\ k \in DOMAIN xE
        /\ k \in DOMAIN yE
        /\ xE[k] # Uninit
        /\ yE[k] # Uninit
        /\ \A i \in DOMAIN yE : (i > k) => (yE[i] = Uninit)
        /\ \A i \in DOMAIN xE : (i > k + 1) => (xE[i] = Uninit)
    /\ (pc = "done") =>
        /\ \A i \in 0..(N - 1) : xE[i] # Uninit /\ yE[i] # Uninit
        /\ \A i \in 0..(N - 1) : IsNum(xE[i]) /\ IsNum(yE[i])

C17_Witness ==
    /\ pc = "stepx"
    /\ k = MaxN - 2
    /\ xE[k] # Uninit
    /\ xE[k + 1] = Uninit
    /\ yE[k + 1] = Uninit

\* --------------------------------------------- claims on the worked addition
\* the run is the notebook's own: 0.3 + 0.1
NotebookOperands == opA = Half03 /\ opB = Half01

\* C13: aligning 0.1 to the exponent of 0.3 takes exactly two right shifts,
\* each raising the exponent by 1; GRS is 000 after the first and 100 after
\* the second; the shifted mantissa is (0)0110011001 with LSB 1, and the
\* halfway rule rounds it up to 0 01101 (0)0110011010, i.e. 410.
C13_AlignAndRound ==
    NotebookOperands =>
        /\ Len(off) <= 2
        /\ al.E = Half01.E + Len(off)
        /\ (fpc = "align" /\ Len(off) = 0) =>
                al = Half01 /\ GRS = <<0, 0, 0>>
        /\ (fpc = "align" /\ Len(off) = 1) =>
                /\ ToBits(al.E, 5) = <<0, 1, 1, 0, 0>>
                /\ ToBits(al.M, 11) = <<0, 1, 1, 0, 0, 1, 1, 0, 0, 1, 1>>
                /\ GRS = <<0, 0, 0>>
        /\ (fpc = "align" /\ Len(off) = 2) =>
                /\ ToBits(al.E, 5) = <<0, 1, 1, 0, 1>>
                /\ ToBits(al.M, 11) = <<0, 0, 1, 1, 0, 0, 1, 1, 0, 0, 1>>
                /\ al.M % 2 = 1
                /\ GRS = <<1, 0, 0>>
        /\ (fpc \in {"add", "decode", "end"}) =>
                /\ Len(off) = 2
                /\ al.S = 0
                /\ ToBits(al.E, 5) = <<0, 1, 1, 0, 1>>
                /\ ToBits(al.M, 11) = <<0, 0, 1, 1, 0, 0, 1, 1, 0, 1, 0>>
                /\ al.M = 410

C13_Witness == NotebookOperands /\ fpc = "add" /\ al.M = 410 /\ GRS = <<1, 0, 0>>

HasOne(b, n) == \E j \in 1..n : b[j] = 1

\* the bit shifted off j shifts ago, 0 when there was none
LastOff(j) == IF Len(off) >= j THEN off[Len(off) + 1 - j] ELSE 0

\* guard and round are the last two bits shifted off, sticky is 1 exactly
\* when a 1 is among the bits shifted off before those two
GRSFollowsHistory ==
    /\ (fpc = "align" /\ Len(off) = 0) => GRS[3] = 0
    /\ GRS[1] = LastOff(1)
    /\ GRS[2] = LastOff(2)
    /\ GRS[3] = (IF Len(off) >= 3 /\ HasOne(off, Len(off) - 2) THEN 1 ELSE 0)

\* C14: the sticky bit starts at 0, becomes 1 once a 1 has been shifted onto
\* it and then stays 1 whatever is shifted onto it; guard and round hold the
\* last two bits shifted off.
C14_StickyStateful ==
    /\ []GRSFollowsHistory
    /\ [][(off' # off) => (GRS'[3] = 1 <=> (GRS[3] = 1 \/ GRS[2] = 1))]_vars

\* a 0 has been shifted onto a sticky bit that was 1
C14_Witness ==
    /\ Len(off) >= 4
    /\ HasOne(off, Len(off) - 3)
    /\ off[Len(off) - 2] = 0
    /\ GRS[3] = 1

\* the result of the worked example: 0 01101 1001100111
IsWorkedResult ==
    /\ fpc = "end"
    /\ result.S = 0
    /\ ToBits(result.E, 5) = <<0, 1, 1, 0, 1>>
    /\ ToBits(result.M, 11) = <<1, 1, 0, 0, 1, 1, 0, 0, 1, 1, 1>>

\* 0.000244140625
EpsDigits == <<0, 0, 0, 2, 4, 4, 1, 4, 0, 6, 2, 5>>

\* C15: the pattern 0 01101 1001100111 decodes by
\* (-1)^0 * 2^(13-15) * (1 + 615/1024) to exactly 0.4000146484375, with
\* precision 2^(13-15)/1024 = 0.000244140625.
C15_DecodesAsPrinted ==
    IsWorkedResult =>
        /\ decimal = [int |-> 0, frac |-> <<4, 0, 0, 0, 1, 4, 6, 4, 8, 4, 3, 7, 5>>]
        /\ eps = [int |-> 0, frac |-> EpsDigits]

\* what the formula (-1)^S * 2^(E-15) * (1 + M/1024) gives for the pattern,
\* E = 13 and M = 615: 1639/4096 = 0.400146484375, and 1/4096 for eps
FormulaValue ==
    IsWorkedResult =>
        /\ decimal = [int |-> 0, frac |-> <<4, 0, 0, 1, 4, 6, 4, 8, 4, 3, 7, 5>>]
        /\ eps = [int |-> 0, frac |-> EpsDigits]

====
